---------------------------- MODULE Spec2Model ----------------------------
(***************************************************************************)
(* Model of the project-discovery and source-metrics engine of             *)
(* src/mysqltest/server.js: the FRAMEWORKS catalog, ProjectScanner         *)
(* (scanForProjects, scanDirectory, detectFramework) and CodeCounter       *)
(* (countLines, categorizeFile, scanDirectory, processFile,                *)
(* generateReport).                                                        *)
(*                                                                         *)
(* Strings are TLA+ strings, handled character by character with Len,      *)
(* SubSeq and \o.  Paths are POSIX paths.  The file system is a tree of    *)
(* nodes that never changes during a behaviour ("unchanged tree").         *)
(***************************************************************************)
EXTENDS Integers, Sequences, FiniteSets, TLC

VARIABLES
  disk,        \* the file tree: the node of the root directory
  framework,   \* CodeCounter.framework: a FRAMEWORKS entry or NoFramework
  stats,       \* CodeCounter.stats
  report,      \* the report returned by the step just taken, or NoReport
  pending,     \* a scanDirectory walk has returned and the stats have not
               \* been touched since
  runs,        \* summaries returned by the scanDirectory+generateReport runs
               \* of the current counter
  projects,    \* ProjectScanner.projects
  returned,    \* the completed detectFramework / scanForProjects /
               \* scanDirectory calls of the scanner, in order: their
               \* arguments and what they returned (a returned this.projects
               \* is the array itself and shows later pushes)
  content,     \* countLines: the content argument
  filePath,    \* countLines: the filePath argument
  lineStats,   \* countLines: the returned record, or NoStats
  inflight     \* the calls suspended at an await, in call order: their
               \* arguments and where each is (the statement a processFile
               \* call is at, the steps a scan or walk has still to make)

vars == << disk, framework, stats, report, pending, runs, projects, returned,
           content, filePath, lineStats, inflight >>

-----------------------------------------------------------------------------
(* Bounds of the model.                                                    *)

MaxLen == 4          \* longest content enumerated for countLines
MaxEntries == 3      \* most entries of a directory snapshot of SpecDetect
MaxDeps == 2         \* most names under dependencies in a manifest
MaxDetects == 2      \* detectFramework calls per behaviour
MaxDepthArg == 3     \* largest maxDepth argument tried (the default is 3)
MaxProjects == 6     \* length of this.projects a scanner is taken to
MaxScans == 2        \* scanForProjects and scanDirectory calls per scanner
MaxCalls == 2        \* steps on the stats after which processFile is no
                     \* longer called directly
MaxWork == 6         \* steps made or promised after which no walk begins
MaxRuns == 2         \* walks of a counter, in flight or completed by a report
MaxCategorized == 3  \* processFile calls on a counter of SpecCategory
MaxInflight == 3     \* processFile calls in flight together
MaxProcessed == 6    \* processFile calls on the counter of SpecLargest

-----------------------------------------------------------------------------
(* String and path primitives (String.prototype and node's path module).   *)

CharAt(s, i) == SubSeq(s, i, i)

StartsWith(s, p) == Len(p) <= Len(s) /\ SubSeq(s, 1, Len(p)) = p

EndsWith(s, p) ==
  Len(p) <= Len(s) /\ SubSeq(s, Len(s) - Len(p) + 1, Len(s)) = p

Includes(s, t) ==
  \E i \in 1..(Len(s) - Len(t) + 1) : SubSeq(s, i, i + Len(t) - 1) = t

\* The characters String.prototype.trim strips (WhiteSpace and
\* LineTerminator of ECMAScript): space, tab, line feed, carriage return,
\* form feed and, written as the characters themselves, U+000B, U+00A0,
\* U+1680 and U+FEFF.  The others (U+2000-U+200A, U+2028, U+2029, U+202F,
\* U+205F, U+3000) cannot occur in a string of this module.
WhiteSpace ==
  {" ", "\t", "\n", "\r", "\f", "", " ", " ", "﻿"}

RECURSIVE TrimStart(_)
TrimStart(s) ==
  IF Len(s) > 0 /\ CharAt(s, 1) \in WhiteSpace
    THEN TrimStart(SubSeq(s, 2, Len(s)))
    ELSE s

RECURSIVE TrimEnd(_)
TrimEnd(s) ==
  IF Len(s) > 0 /\ CharAt(s, Len(s)) \in WhiteSpace
    THEN TrimEnd(SubSeq(s, 1, Len(s) - 1))
    ELSE s

Trim(s) == TrimEnd(TrimStart(s))

\* s.split(sep) for a one-character separator: the pieces between the
\* separators, one more piece than there are separators.
RECURSIVE SplitFrom(_, _, _, _)
SplitFrom(s, sep, i, piece) ==
  IF i > Len(s) THEN << piece >>
  ELSE IF CharAt(s, i) = sep
    THEN << piece >> \o SplitFrom(s, sep, i + 1, "")
    ELSE SplitFrom(s, sep, i + 1, piece \o CharAt(s, i))

\* split that drops an empty last piece
Split_noTrailingEmpty(s, sep) ==
  LET pieces == SplitFrom(s, sep, 1, "")
  IN  IF Len(pieces) > 1 /\ pieces[Len(pieces)] = ""
        THEN SubSeq(pieces, 1, Len(pieces) - 1)
        ELSE pieces

Split(s, sep) == SplitFrom(s, sep, 1, "")

UpperCase == "ABCDEFGHIJKLMNOPQRSTUVWXYZ"
LowerCase == "abcdefghijklmnopqrstuvwxyz"

ToLowerChar(c) ==
  IF \E i \in 1..Len(UpperCase) : CharAt(UpperCase, i) = c
    THEN CharAt(LowerCase, CHOOSE i \in 1..Len(UpperCase) : CharAt(UpperCase, i) = c)
    ELSE c

RECURSIVE ToLowerCase(_)
ToLowerCase(s) ==
  IF s = "" THEN ""
  ELSE ToLowerChar(CharAt(s, 1)) \o ToLowerCase(SubSeq(s, 2, Len(s)))

\* Index of the last occurrence of the character c in s, 0 when there is none.
LastIndexOf(s, c) ==
  LET hits == {i \in 1..Len(s) : CharAt(s, i) = c}
  IN  IF hits = {} THEN 0 ELSE CHOOSE i \in hits : \A j \in hits : j <= i

\* path.basename(p): what follows the last separator.
BaseName(p) == SubSeq(p, LastIndexOf(p, "/") + 1, Len(p))

\* path.extname(p): from the last dot of the basename on; empty when the
\* basename has no dot or its only dot is its first character.
ExtName(p) ==
  LET b == BaseName(p)
      i == LastIndexOf(b, ".")
  IN  IF i <= 1 \/ b = ".." THEN "" ELSE SubSeq(b, i, Len(b))

\* path.join(dir, name) for a plain entry name.
Join(dir, name) == dir \o "/" \o name

\* path.relative(base, full) for a path at or below base.
Relative(base, full) ==
  IF full = base THEN "" ELSE SubSeq(full, Len(base) + 2, Len(full))

-----------------------------------------------------------------------------
(* Static configuration.                                                   *)

\* A category pattern /\/(a|b)\// is kept as the sequence of its
\* alternatives; see PatternTest.
FRAMEWORKS ==
  << [key |-> "nextjs", name |-> "Next.js",
      patterns |-> <<"next.config.js", "next.config.ts", "next.config.mjs">>,
      packageIndicators |-> <<"next">>,
      directories |-> <<"pages", "app">>,
      categories |-> <<
        [category |-> "pages",      pattern |-> <<"pages", "app">>],
        [category |-> "components", pattern |-> <<"components", "ui">>],
        [category |-> "api",        pattern |-> <<"api">>],
        [category |-> "hooks",      pattern |-> <<"hooks", "composables">>],
        [category |-> "utils",      pattern |-> <<"utils", "lib", "helpers">>],
        [category |-> "styles",     pattern |-> <<"styles", "css">>],
        [category |-> "types",      pattern |-> <<"types", "interfaces">>],
        [category |-> "config",     pattern |-> <<"config", "constants">>],
        [category |-> "public",     pattern |-> <<"public">>] >>],
     [key |-> "nuxtjs", name |-> "Nuxt.js",
      patterns |-> <<"nuxt.config.js", "nuxt.config.ts">>,
      packageIndicators |-> <<"nuxt", "@nuxt/">>,
      directories |-> <<"pages", "components", "layouts">>,
      categories |-> <<
        [category |-> "pages",       pattern |-> <<"pages">>],
        [category |-> "components",  pattern |-> <<"components">>],
        [category |-> "layouts",     pattern |-> <<"layouts">>],
        [category |-> "plugins",     pattern |-> <<"plugins">>],
        [category |-> "middleware",  pattern |-> <<"middleware">>],
        [category |-> "composables", pattern |-> <<"composables">>],
        [category |-> "utils",       pattern |-> <<"utils", "lib">>],
        [category |-> "assets",      pattern |-> <<"assets">>],
        [category |-> "static",      pattern |-> <<"static", "public">>],
        [category |-> "server",      pattern |-> <<"server">>] >>],
     [key |-> "vue", name |-> "Vue.js",
      patterns |-> <<"vue.config.js", "vite.config.js", "vite.config.ts">>,
      packageIndicators |-> <<"vue", "@vue/">>,
      directories |-> <<"src">>,
      categories |-> <<
        [category |-> "components",  pattern |-> <<"components", "views">>],
        [category |-> "router",      pattern |-> <<"router">>],
        [category |-> "store",       pattern |-> <<"store", "stores">>],
        [category |-> "composables", pattern |-> <<"composables", "hooks">>],
        [category |-> "utils",       pattern |-> <<"utils", "lib", "helpers">>],
        [category |-> "assets",      pattern |-> <<"assets">>],
        [category |-> "styles",      pattern |-> <<"styles", "css">>],
        [category |-> "types",       pattern |-> <<"types", "interfaces">>] >>],
     [key |-> "react", name |-> "React",
      patterns |-> <<"src/App.js", "src/App.tsx", "src/index.js", "src/index.tsx">>,
      packageIndicators |-> <<"react">>,
      directories |-> <<"src">>,
      categories |-> <<
        [category |-> "components", pattern |-> <<"components", "ui">>],
        [category |-> "pages",      pattern |-> <<"pages", "views", "screens">>],
        [category |-> "hooks",      pattern |-> <<"hooks">>],
        [category |-> "context",    pattern |-> <<"context", "providers">>],
        [category |-> "utils",      pattern |-> <<"utils", "lib", "helpers">>],
        [category |-> "assets",     pattern |-> <<"assets">>],
        [category |-> "styles",     pattern |-> <<"styles", "css">>],
        [category |-> "types",      pattern |-> <<"types", "interfaces">>],
        [category |-> "services",   pattern |-> <<"services", "api">>] >>] >>

CODE_EXTENSIONS ==
  { ".js", ".jsx", ".ts", ".tsx", ".vue", ".svelte",
    ".html", ".css", ".scss", ".sass", ".less",
    ".json", ".graphql", ".md", ".mdx" }

IGNORE_DIRS ==
  { "node_modules", ".git", ".next", ".nuxt", "dist", "build",
    ".output", "coverage", ".nyc_output", ".vscode", ".idea",
    "__pycache__", ".pytest_cache", "logs", ".cache",
    "public", "static", "assets" }

IGNORE_FILES ==
  { "package-lock.json", "yarn.lock", "pnpm-lock.yaml",
    ".gitignore", ".env", ".env.local", ".env.example",
    "next.config.js", "nuxt.config.js", "vue.config.js",
    "tailwind.config.js", "postcss.config.js", "vite.config.js" }

\* null, for a framework / a report / a returned record that is absent
NoFramework == [key |-> "none"]
NoReport == [none |-> TRUE]
NoStats == [none |-> TRUE]
NoJson == [valid |-> FALSE, dependencies |-> {}, devDependencies |-> {}]

-----------------------------------------------------------------------------
(* The file tree.  A node is a directory (ok: fs.readdir succeeds), a      *)
(* regular file (ok: fs.readFile succeeds) or another kind of entry; json  *)
(* is what JSON.parse makes of a manifest's content (valid: it parses; the *)
(* keys of its dependencies and devDependencies objects).                  *)

\* The printable ASCII characters in the order of their codes.
AsciiBelowGrave ==
  " !\"#$%&'()*+,-./0123456789:;<=>?@ABCDEFGHIJKLMNOPQRSTUVWXYZ[\\]^_"

AsciiAboveGrave == "abcdefghijklmnopqrstuvwxyz{|}~"

\* the byte of an ASCII character of a name (32..95 and 97..126)
CharCode(c) ==
  IF \E i \in 1..Len(AsciiBelowGrave) : CharAt(AsciiBelowGrave, i) = c
    THEN 31 + (CHOOSE i \in 1..Len(AsciiBelowGrave) :
                 CharAt(AsciiBelowGrave, i) = c)
    ELSE 96 + (CHOOSE i \in 1..Len(AsciiAboveGrave) :
                 CharAt(AsciiAboveGrave, i) = c)

\* a comes before b in the order fs.readdir lists names: byte by byte, a
\* name before the names it is a proper prefix of
RECURSIVE NameBefore(_, _)
NameBefore(a, b) ==
  IF b = "" THEN FALSE
  ELSE IF a = "" THEN TRUE
  ELSE IF CharAt(a, 1) = CharAt(b, 1)
    THEN NameBefore(SubSeq(a, 2, Len(a)), SubSeq(b, 2, Len(b)))
  ELSE CharCode(CharAt(a, 1)) < CharCode(CharAt(b, 1))

\* the entries of a directory in the order fs.readdir returns them
RECURSIVE ReaddirOrder(_)
ReaddirOrder(entries) ==
  IF entries = << >> THEN << >>
  ELSE LET first == CHOOSE i \in DOMAIN entries :
                      \A j \in DOMAIN entries :
                        j # i => NameBefore(entries[i].name, entries[j].name)
       IN  << entries[first] >> \o
           ReaddirOrder([k \in 1..(Len(entries) - 1) |->
                           IF k < first THEN entries[k] ELSE entries[k + 1]])

\* a directory whose entries are given in the order fs.readdir returns them
Listing(name, ok, entries) ==
  [kind |-> "dir", name |-> name, ok |-> ok, content |-> "",
   json |-> NoJson, entries |-> entries]

\* a directory holding the entries, given in any order
Dir(name, ok, entries) == Listing(name, ok, ReaddirOrder(entries))

File(name, ok, text) ==
  [kind |-> "file", name |-> name, ok |-> ok, content |-> text,
   json |-> NoJson, entries |-> << >>]

Manifest(ok, json) ==
  [kind |-> "file", name |-> "package.json", ok |-> ok, content |-> "{}",
   json |-> json, entries |-> << >>]

\* a symbolic link whose target does not exist
Link(name) ==
  [kind |-> "link", name |-> name, ok |-> TRUE, content |-> "",
   json |-> NoJson, entries |-> << >>]

\* What is at a path that does not exist.
Missing ==
  [kind |-> "missing", name |-> "", ok |-> FALSE, content |-> "",
   json |-> NoJson, entries |-> << >>]

\* What is at a path that leads through a regular file.
BelowFile ==
  [kind |-> "belowFile", name |-> "", ok |-> FALSE, content |-> "",
   json |-> NoJson, entries |-> << >>]

\* fs.readdir(dir) succeeds
Listable(node) == node.kind = "dir" /\ node.ok

\* fs.readFile(file) succeeds
Readable(node) == node.kind = "file" /\ node.ok

\* the entry of that name in a directory, Missing when there is none
Entry(dir, name) ==
  IF \E i \in DOMAIN dir.entries : dir.entries[i].name = name
    THEN dir.entries[CHOOSE i \in DOMAIN dir.entries : dir.entries[i].name = name]
    ELSE Missing


RootPath == "/w"

\* The node at an absolute path of the tree rooted at RootPath: nothing
\* exists below a missing entry or a dangling link, and a path through a
\* regular file is not a path.
RECURSIVE Descend(_, _, _)
Descend(node, segments, i) ==
  IF i > Len(segments) THEN node
  ELSE IF node.kind = "dir"
    THEN Descend(Entry(node, segments[i]), segments, i + 1)
  ELSE IF node.kind \in {"file", "belowFile"} THEN BelowFile
  ELSE Missing

NodeAt(path) ==
  IF path = RootPath THEN disk
  ELSE IF StartsWith(path, RootPath \o "/")
    THEN Descend(disk, Split(Relative(RootPath, path), "/"), 1)
    ELSE Missing

\* error.message of a failed fs call ("readFile" or "readdir") on that
\* node, up to the errno code.  readdir of a regular file gives ENOTDIR
\* whether or not the file can be read; readFile of a directory that can be
\* listed gives EISDIR.
ErrorMessage(node, call) ==
  IF node.kind \in {"missing", "link"} THEN "ENOENT"
  ELSE IF node.kind = "belowFile" THEN "ENOTDIR"
  ELSE IF call = "readdir" /\ node.kind = "file" THEN "ENOTDIR"
  ELSE IF ~node.ok THEN "EACCES"
  ELSE "EISDIR"

-----------------------------------------------------------------------------
(* ProjectScanner.detectFramework                                          *)

\* framework.patterns.some(pattern => files.includes(path.basename(pattern)))
hasConfigFile(fw, files) ==
  \E i \in DOMAIN fw.patterns : BaseName(fw.patterns[i]) \in files

\* the keys of {...packageJson.dependencies, ...packageJson.devDependencies}
allDeps(packageJson) ==
  packageJson.dependencies \cup packageJson.devDependencies

\* hasPackageDep comparing with === where the code calls includes
hasPackageDep_exactName(fw, packageJson) ==
  /\ packageJson.valid
  /\ \E i \in DOMAIN fw.packageIndicators :
       \E dep \in allDeps(packageJson) : dep = fw.packageIndicators[i]

\* framework.packageIndicators.some(indicator =>
\*   Object.keys(allDeps).some(dep => dep.includes(indicator)))
hasPackageDep(fw, packageJson) ==
  /\ packageJson.valid
  /\ \E i \in DOMAIN fw.packageIndicators :
       \E dep \in allDeps(packageJson) : Includes(dep, fw.packageIndicators[i])

\* framework.directories.some(dir => files.includes(dir))
hasTypicalDirs(fw, files) ==
  \E i \in DOMAIN fw.directories : fw.directories[i] \in files

\* JSON.parse of the manifest of a directory; NoJson (packageJson stays null)
\* when it is absent, unreadable or does not parse.
readPackageJson(dir) ==
  LET pkg == Entry(dir, "package.json")
  IN  IF Readable(pkg) /\ pkg.json.valid THEN pkg.json ELSE NoJson

\* the loop over Object.entries(FRAMEWORKS), from its i-th entry on
RECURSIVE detectFrom(_, _, _)
detectFrom(i, files, packageJson) ==
  IF i > Len(FRAMEWORKS) THEN NoFramework
  ELSE IF \/ hasConfigFile(FRAMEWORKS[i], files)
          \/ hasPackageDep(FRAMEWORKS[i], packageJson)
          \/ hasTypicalDirs(FRAMEWORKS[i], files)
    THEN FRAMEWORKS[i]
    ELSE detectFrom(i + 1, files, packageJson)

detectFramework(dirPath) ==
  LET dir == NodeAt(dirPath)
  IN  IF ~Listable(dir) THEN NoFramework
      ELSE detectFrom(1,
                      {dir.entries[i].name : i \in DOMAIN dir.entries},
                      readPackageJson(dir))

-----------------------------------------------------------------------------
(* ProjectScanner.scanDirectory and scanForProjects, on the value of       *)
(* this.projects.                                                          *)

\* an argument that is left out (undefined), among the integers
Undefined == 0 - 1

\* a >= b of JavaScript for a number a: false when b is undefined
AtLeast(a, b) == b # Undefined /\ a >= b

RECURSIVE ProjectScanner_scanDirectory(_, _, _, _)
RECURSIVE scanSubdirectories(_, _, _, _, _)

\* the for loop with the test on the leading '.' of the name left out
scanSubdirectories_hiddenAllowed(projs, dirPath, i, currentDepth, maxD) ==
  LET entries == NodeAt(dirPath).entries
  IN  IF i > Len(entries) THEN projs
      ELSE IF /\ entries[i].kind = "dir"
              /\ entries[i].name \notin IGNORE_DIRS
        THEN scanSubdirectories(
               ProjectScanner_scanDirectory(projs, Join(dirPath, entries[i].name),
                                            currentDepth + 1, maxD),
               dirPath, i + 1, currentDepth, maxD)
        ELSE scanSubdirectories(projs, dirPath, i + 1, currentDepth, maxD)

\* the for loop over the entries of dirPath, from the i-th entry on
scanSubdirectories(projs, dirPath, i, currentDepth, maxD) ==
  LET entries == NodeAt(dirPath).entries
  IN  IF i > Len(entries) THEN projs
      ELSE IF /\ entries[i].kind = "dir"
              /\ entries[i].name \notin IGNORE_DIRS
              /\ ~StartsWith(entries[i].name, ".")
        THEN scanSubdirectories(
               ProjectScanner_scanDirectory(projs, Join(dirPath, entries[i].name),
                                            currentDepth + 1, maxD),
               dirPath, i + 1, currentDepth, maxD)
        ELSE scanSubdirectories(projs, dirPath, i + 1, currentDepth, maxD)

\* scanDirectory with the depth test written > where the code has >=
ProjectScanner_scanDirectory_inclusive(projs, dirPath, currentDepth, maxD) ==
  IF maxD # Undefined /\ currentDepth > maxD THEN projs
  ELSE IF ~Listable(NodeAt(dirPath)) THEN projs
  ELSE LET fw == detectFramework(dirPath)
           recorded ==
             IF fw # NoFramework
               THEN Append(projs, [name |-> BaseName(dirPath),
                                   path |-> dirPath,
                                   framework |-> fw.name])
               ELSE projs
       IN  scanSubdirectories(recorded, dirPath, 1, currentDepth, maxD)

ProjectScanner_scanDirectory(projs, dirPath, currentDepth, maxD) ==
  IF AtLeast(currentDepth, maxD) THEN projs
  ELSE IF ~Listable(NodeAt(dirPath)) THEN projs
  ELSE LET fw == detectFramework(dirPath)
           recorded ==
             IF fw # NoFramework
               THEN Append(projs, [name |-> BaseName(dirPath),
                                   path |-> dirPath,
                                   framework |-> fw.name])
               ELSE projs
       IN  scanSubdirectories(recorded, dirPath, 1, currentDepth, maxD)

\* The projects a scanDirectory call pushes onto this.projects, in the order
\* it pushes them.  The call only reads the tree, which does not change, so
\* what it will push is known from its arguments.
pushesOf(dirPath, currentDepth, maxD) ==
  ProjectScanner_scanDirectory(<< >>, dirPath, currentDepth, maxD)

\* scanForProjects once its scanDirectory has completed, projs being
\* this.projects at that moment: what it returns (a new empty array or
\* this.projects itself), the number it prints and the line printed.
\* scanDirectory catches every error itself, so the catch branch of
\* scanForProjects is never entered.
scanForProjects(projs) ==
  IF Len(projs) = 0
    THEN [result |-> "[]", value |-> << >>, count |-> 0,
          logged |-> "No projects found"]
    ELSE [result |-> "this.projects", value |-> projs, count |-> Len(projs),
          logged |-> "Found"]

-----------------------------------------------------------------------------
(* CodeCounter                                                             *)

\* the stats object built by the constructor
NewStats ==
  [totalFiles |-> 0, totalLines |-> 0, totalCodeLines |-> 0,
   totalBlankLines |-> 0, totalCommentLines |-> 0,
   fileTypes |-> << >>, categories |-> << >>,
   largestFiles |-> << >>, errors |-> << >>]

isCodeFile(path) == ToLowerCase(ExtName(path)) \in CODE_EXTENSIONS

shouldIgnoreDir(dirName) == dirName \in IGNORE_DIRS \/ StartsWith(dirName, ".")

shouldIgnoreFile(fileName) ==
  \/ fileName \in IGNORE_FILES
  \/ StartsWith(fileName, ".")
  \/ EndsWith(fileName, ".min.js")

\* pattern.test(path) for a pattern /\/(a|b)\//: the path contains one of
\* the alternatives between two separators.
PatternTest(pattern, path) ==
  \E i \in DOMAIN pattern : Includes(path, "/" \o pattern[i] \o "/")

RECURSIVE categorizeFrom(_, _, _)
categorizeFrom(categories, i, path) ==
  IF i > Len(categories) THEN "other"
  ELSE IF PatternTest(categories[i].pattern, path) THEN categories[i].category
  ELSE categorizeFrom(categories, i + 1, path)

categorizeFile(fw, path) ==
  IF fw = NoFramework THEN "other" ELSE categorizeFrom(fw.categories, 1, path)

isJsLike(ext) == ext \in {".js", ".jsx", ".ts", ".tsx", ".vue"}

isCssLike(ext) == ext \in {".css", ".scss", ".sass", ".less"}

\* countLine with the continue of the single-line comment branch left out:
\* the line falls through and is counted as code as well.
countLine_fallThrough(acc, line, ext) ==
  LET trimmedLine == Trim(line)
  IN  IF trimmedLine = ""
        THEN [acc EXCEPT !.blank = @ + 1]
      ELSE IF (isJsLike(ext) \/ isCssLike(ext)) /\ acc.inMultiLineComment
        THEN [acc EXCEPT !.comments = @ + 1,
                         !.inMultiLineComment =
                            IF Includes(trimmedLine, "*/") THEN FALSE ELSE @]
      ELSE IF (isJsLike(ext) \/ isCssLike(ext)) /\ StartsWith(trimmedLine, "/*")
        THEN [acc EXCEPT !.comments = @ + 1,
                         !.inMultiLineComment =
                            IF ~Includes(trimmedLine, "*/") THEN TRUE ELSE @]
      ELSE IF \/ isJsLike(ext) /\ StartsWith(trimmedLine, "//")
              \/ isCssLike(ext) /\ StartsWith(trimmedLine, "/*")
              \/ ext = ".html" /\ StartsWith(trimmedLine, "<!--")
        THEN [acc EXCEPT !.comments = @ + 1, !.code = @ + 1]
      ELSE [acc EXCEPT !.code = @ + 1]

\* One pass of the for loop of countLines: the counters and the
\* inMultiLineComment flag after the line.
countLine(acc, line, ext) ==
  LET trimmedLine == Trim(line)
  IN  IF trimmedLine = ""
        THEN [acc EXCEPT !.blank = @ + 1]
      ELSE IF (isJsLike(ext) \/ isCssLike(ext)) /\ acc.inMultiLineComment
        THEN [acc EXCEPT !.comments = @ + 1,
                         !.inMultiLineComment =
                            IF Includes(trimmedLine, "*/") THEN FALSE ELSE @]
      ELSE IF (isJsLike(ext) \/ isCssLike(ext)) /\ StartsWith(trimmedLine, "/*")
        THEN [acc EXCEPT !.comments = @ + 1,
                         !.inMultiLineComment =
                            IF ~Includes(trimmedLine, "*/") THEN TRUE ELSE @]
      ELSE IF \/ isJsLike(ext) /\ StartsWith(trimmedLine, "//")
              \/ isCssLike(ext) /\ StartsWith(trimmedLine, "/*")
              \/ ext = ".html" /\ StartsWith(trimmedLine, "<!--")
        THEN [acc EXCEPT !.comments = @ + 1]
      ELSE [acc EXCEPT !.code = @ + 1]

\* the counters and the flag countLines starts a file with
NewCount ==
  [code |-> 0, comments |-> 0, blank |-> 0, inMultiLineComment |-> FALSE]

RECURSIVE countFrom(_, _, _, _)

\* the loop with inMultiLineComment declared inside its body: the flag is
\* not carried from one line to the next
countFrom_flagPerLine(lines, i, acc, ext) ==
  IF i > Len(lines) THEN acc
  ELSE countFrom(lines, i + 1,
                 [countLine(acc, lines[i], ext)
                    EXCEPT !.inMultiLineComment = FALSE], ext)

\* the for loop of countLines, from the i-th line on
countFrom(lines, i, acc, ext) ==
  IF i > Len(lines) THEN acc
  ELSE countFrom(lines, i + 1, countLine(acc, lines[i], ext), ext)

countLines(text, path) ==
  LET lines == Split(text, "\n")
      ext == ToLowerCase(ExtName(path))
      acc == countFrom(lines, 1, NewCount, ext)
  IN  [total |-> Len(lines), code |-> acc.code,
       comments |-> acc.comments, blank |-> acc.blank]

\* updateBucket creating the bucket at every call instead of on first use
updateBucket_recreate(buckets, key, ls) ==
  LET old == [count |-> 0, lines |-> 0, codeLines |-> 0]
      new == [count |-> old.count + 1,
              lines |-> old.lines + ls.total,
              codeLines |-> old.codeLines + ls.code]
  IN  [k \in DOMAIN buckets \cup {key} |-> IF k = key THEN new ELSE buckets[k]]

\* buckets[key] after its lazy creation and the three updates
updateBucket(buckets, key, ls) ==
  LET old == IF key \in DOMAIN buckets
               THEN buckets[key]
               ELSE [count |-> 0, lines |-> 0, codeLines |-> 0]
      new == [count |-> old.count + 1,
              lines |-> old.lines + ls.total,
              codeLines |-> old.codeLines + ls.code]
  IN  [k \in DOMAIN buckets \cup {key} |-> IF k = key THEN new ELSE buckets[k]]

\* Array.prototype.sort((a, b) => b.lines - a.lines): stable, descending
RECURSIVE insertSorted(_, _)
insertSorted(sorted, e) ==
  IF sorted = << >> THEN << e >>
  ELSE IF Head(sorted).lines >= e.lines
    THEN << Head(sorted) >> \o insertSorted(Tail(sorted), e)
    ELSE << e >> \o sorted

RECURSIVE sortByLines(_)
sortByLines(list) ==
  IF list = << >> THEN << >>
  ELSE insertSorted(sortByLines(SubSeq(list, 1, Len(list) - 1)), list[Len(list)])

\* the "keep only top 5" step slicing without the sort before it
trackLargest_sliceUnsorted(largestFiles, e) ==
  LET pushed == Append(largestFiles, e)
  IN  IF Len(pushed) > 5 THEN SubSeq(pushed, 1, 5) ELSE pushed

\* largestFiles after the push and the "keep only top 5" step
trackLargest(largestFiles, e) ==
  LET pushed == Append(largestFiles, e)
  IN  IF Len(pushed) > 5 THEN SubSeq(sortByLines(pushed), 1, 5) ELSE pushed

\* the catch clause entered after the file has already been counted
recordFileError_counted(st, path) ==
  [st EXCEPT !.totalFiles = @ + 1,
             !.errors =
     Append(@, "Error processing file " \o path \o ": "
               \o ErrorMessage(NodeAt(path), "readFile"))]

\* the catch clause of processFile
recordFileError(st, path) ==
  [st EXCEPT !.errors =
     Append(@, "Error processing file " \o path \o ": "
               \o ErrorMessage(NodeAt(path), "readFile"))]

\* the try block of processFile once the file has been read
foldFile(st, fw, path, relativePath, text) ==
  LET ls == countLines(text, path)
      ext == ToLowerCase(ExtName(path))
      category == categorizeFile(fw, relativePath)
  IN  [st EXCEPT
         !.totalFiles = @ + 1,
         !.totalLines = @ + ls.total,
         !.totalCodeLines = @ + ls.code,
         !.totalBlankLines = @ + ls.blank,
         !.totalCommentLines = @ + ls.comments,
         !.fileTypes = updateBucket(@, ext, ls),
         !.categories = updateBucket(@, category, ls),
         !.largestFiles = trackLargest(@, [path |-> relativePath,
                                           lines |-> ls.total,
                                           codeLines |-> ls.code,
                                           size |-> Len(text),
                                           type |-> ext])]

processFile(st, fw, path, relativePath) ==
  IF Readable(NodeAt(path))
    THEN foldFile(st, fw, path, relativePath, NodeAt(path).content)
    ELSE recordFileError(st, path)

\* error.message of the TypeError spinner.updateText throws when scanDirectory
\* was called without a spinner
NoSpinnerMessage ==
  "Cannot read properties of undefined (reading 'updateText')"

\* scanDirectory changes this.stats in steps, with awaits between them: a
\* processFile call, or the catch clause of a scanDirectory call.  The walk
\* only reads the tree, which does not change, so its steps are known from
\* its arguments; spinner tells whether a spinner was passed.
RECURSIVE CodeCounter_scanDirectory(_, _, _)
RECURSIVE scanEntries(_, _, _, _)

\* the for loop over the entries of dirPath, from the i-th entry on
scanEntries(dirPath, basePath, spinner, i) ==
  LET entries == NodeAt(dirPath).entries
      fullPath == Join(dirPath, entries[i].name)
      relativePath == Relative(basePath, fullPath)
      thrown == << [op |-> "catch", path |-> dirPath,
                    relativePath |-> "", message |-> NoSpinnerMessage] >>
  IN  IF i > Len(entries) THEN << >>
      ELSE IF entries[i].kind = "dir"
        THEN IF ~shouldIgnoreDir(entries[i].name)
               THEN IF ~spinner THEN thrown
                    ELSE CodeCounter_scanDirectory(fullPath, basePath, spinner)
                         \o scanEntries(dirPath, basePath, spinner, i + 1)
               ELSE scanEntries(dirPath, basePath, spinner, i + 1)
      ELSE IF entries[i].kind = "file"
        THEN IF ~shouldIgnoreFile(entries[i].name) /\ isCodeFile(fullPath)
               THEN IF ~spinner THEN thrown
                    ELSE << [op |-> "processFile", path |-> fullPath,
                             relativePath |-> relativePath, message |-> ""] >>
                         \o scanEntries(dirPath, basePath, spinner, i + 1)
               ELSE scanEntries(dirPath, basePath, spinner, i + 1)
      ELSE scanEntries(dirPath, basePath, spinner, i + 1)

\* the steps of scanDirectory(dirPath, basePath, spinner), in order
CodeCounter_scanDirectory(dirPath, basePath, spinner) ==
  IF Listable(NodeAt(dirPath))
    THEN scanEntries(dirPath, basePath, spinner, 1)
    ELSE << [op |-> "catch", path |-> dirPath, relativePath |-> "",
             message |-> ErrorMessage(NodeAt(dirPath), "readdir")] >>

\* the catch clause of scanDirectory
recordScanError(st, dirPath, message) ==
  [st EXCEPT !.errors =
     Append(@, "Error scanning directory " \o dirPath \o ": " \o message)]

\* this.stats after one step of a walk
scanStep(st, fw, step) ==
  IF step.op = "processFile"
    THEN processFile(st, fw, step.path, step.relativePath)
    ELSE recordScanError(st, step.path, step.message)

\* The arithmetic of ((totalCodeLines / totalLines) * 100).toFixed(1) on
\* IEEE 754 doubles, for 0 < c <= t.  The exact value 100c/t lies on a tie
\* between two tenths exactly when 2000c mod 2t = t; off a tie the rounding
\* errors of the division and of the product are too small to change the
\* nearest tenth, on a tie they decide it.

\* the binary digits of c * 2^steps / t by long division: the quotient
\* modulo 1024 and the remainder
RECURSIVE quotientBits(_, _, _, _)
quotientBits(steps, q, r, t) ==
  IF steps = 0 \/ q < 0 \/ r < 0   \* q and r are never negative
    THEN [q |-> q, r |-> r]
  ELSE IF 2 * r >= t
    THEN quotientBits(steps - 1, (2 * q + 1) % 1024, 2 * r - t, t)
    ELSE quotientBits(steps - 1, (2 * q) % 1024, 2 * r, t)

\* the least e with c * 2^e >= t: c/t lies in [2^-e, 2^(1-e))
RECURSIVE binade(_, _, _)
binade(c, t, e) == IF c * 2^e >= t THEN e ELSE binade(c, t, e + 1)

\* The double (c / t) * 100 is not below the exact 100c/t.  With
\* s = 52 + e, the quotient c/t rounds to M1 * 2^-s (M1 of 53 bits, nearest,
\* ties to even) and the product M1 * 100 loses its j lowest bits (6 or 7)
\* the same way; t * 2^s times the error of the result is
\* lost * t + 100 * excess, all small integers.
doubleNotBelow(c, t) ==
  LET e == binade(c, t, 0)
      d == quotientBits(52 + e, c \div t, c % t, t)
      up == 2 * d.r > t \/ (2 * d.r = t /\ d.q % 2 = 1)
      m1 == IF up THEN (d.q + 1) % 1024 ELSE d.q
      excess == IF up THEN t - d.r ELSE 0 - d.r
      j == IF 25 * c * 2^e >= 32 * t THEN 7 ELSE 6
      low == (100 * (m1 % 2^j)) % 2^j
      half == 2^(j - 1)
      odd == ((100 * (m1 % 2^(j + 1))) \div 2^j) % 2 = 1
      lost == IF low < half THEN 0 - low
              ELSE IF low > half THEN 2^j - low
              ELSE IF odd THEN half ELSE 0 - half
  IN  lost * t + 100 * excess >= 0

\* toFixed(1) of the double (c / t) * 100, in tenths: the nearest tenth, the
\* larger one when the double is the same distance from two
toFixed1(c, t) ==
  IF (2000 * c) % (2 * t) # t THEN (2000 * c + t) \div (2 * t)
  ELSE (1000 * c) \div t + (IF doubleNotBelow(c, t) THEN 1 ELSE 0)

\* summary.codeRatio, in tenths of a percent, or "0%" when there are no
\* lines
codeRatio(st) ==
  IF st.totalLines > 0
    THEN [tenths |-> toFixed1(st.totalCodeLines, st.totalLines)]
    ELSE [text |-> "0%"]

\* generateReport without its sort
generateReport_unsorted(st) ==
  [stats |-> st,
   report |-> [summary |-> [totalFiles |-> st.totalFiles,
                            totalLines |-> st.totalLines,
                            totalCodeLines |-> st.totalCodeLines,
                            totalBlankLines |-> st.totalBlankLines,
                            totalCommentLines |-> st.totalCommentLines,
                            codeRatio |-> codeRatio(st)],
               fileTypes |-> st.fileTypes,
               categories |-> st.categories,
               largestFiles |-> st.largestFiles,
               errors |-> st.errors]]

\* generateReport: the stats after the in-place sort, and the report
generateReport(st) ==
  LET sorted == [st EXCEPT !.largestFiles = sortByLines(@)]
  IN  [stats |-> sorted,
       report |-> [summary |-> [totalFiles |-> sorted.totalFiles,
                                totalLines |-> sorted.totalLines,
                                totalCodeLines |-> sorted.totalCodeLines,
                                totalBlankLines |-> sorted.totalBlankLines,
                                totalCommentLines |-> sorted.totalCommentLines,
                                codeRatio |-> codeRatio(sorted)],
                   fileTypes |-> sorted.fileTypes,
                   categories |-> sorted.categories,
                   largestFiles |-> sorted.largestFiles,
                   errors |-> sorted.errors]]

-----------------------------------------------------------------------------
(* Values of the variables an operation under study does not use.          *)

EmptyDisk == Dir("w", TRUE, << >>)

IdleCounter ==
  /\ framework = NoFramework
  /\ stats = NewStats
  /\ report = NoReport
  /\ pending = FALSE
  /\ runs = << >>
  /\ inflight = << >>

IdleScanner == projects = << >> /\ returned = << >>

IdleLines == content = "" /\ filePath = "" /\ lineStats = NoStats

-----------------------------------------------------------------------------
(* SpecLines: countLines applied to every short text and a sample of       *)
(* file names.                                                             *)

Alphabet == {"a", " ", "\n", "/", "*", "<", "!", "-"}

\* the texts of at most n characters over Alphabet
RECURSIVE Texts(_)
Texts(n) ==
  IF n = 0 THEN {""}
  ELSE Texts(n - 1) \cup {t \o c : t \in Texts(n - 1), c \in Alphabet}

ScenarioTexts ==
  {"a\n\n// comment\nb", "/*\nx\n*/\nb", "a\n",
   "/* a\n\n*/ b\n// c\nd", "a /*\nb\n/**/\n*/\n/*/\nc",
   "a\n\f\n/*\n \f\n*/"}

LinePaths == {"/w/a.js", "/w/a.CSS", "/w/a.html", "/w/a.md", "/w/Makefile"}

InitLines ==
  /\ disk = EmptyDisk
  /\ IdleCounter
  /\ IdleScanner
  /\ content \in Texts(MaxLen) \cup ScenarioTexts
  /\ filePath \in LinePaths
  /\ lineStats = NoStats

CountLines ==
  /\ lineStats = NoStats
  /\ lineStats' = countLines(content, filePath)
  /\ UNCHANGED << inflight, disk, framework, stats, report, pending, runs,
                  projects,
                  returned, content, filePath >>

NextLines == CountLines

SpecLines == InitLines /\ [][NextLines]_vars

\* C1: the counts countLines returns add up: code + comments + blank
\* equals total, for every text and every extension.
C1_Partition ==
  lineStats # NoStats =>
    lineStats.code + lineStats.comments + lineStats.blank = lineStats.total

\* a counted text with a code line and a comment line
C1_Witness ==
  /\ lineStats # NoStats
  /\ lineStats.code >= 1
  /\ lineStats.comments >= 1
  /\ Len(content) <= MaxLen

\* the lines of the content, and the extension countLines derives
ContentLines == Split(content, "\n")

ContentExt == ToLowerCase(ExtName(filePath))

\* the counters and the flag once the first k lines have been classified
AfterLine(k) == countFrom(SubSeq(ContentLines, 1, k), 1, NewCount, ContentExt)

\* the counters of a file that holds nothing but this line
LineAlone(line) ==
  LET alone == countLines(line, filePath)
  IN  [code |-> alone.code, comments |-> alone.comments, blank |-> alone.blank]

\* a line that found the counters and the flag as before and left them as
\* after follows the rule of the block-comment state
BlockCommentRule(before, after, line) ==
  LET trimmed == Trim(line)
      delta == [code |-> after.code - before.code,
                comments |-> after.comments - before.comments,
                blank |-> after.blank - before.blank]
  IN  IF before.inMultiLineComment
        THEN IF trimmed = ""
               THEN /\ delta = [code |-> 0, comments |-> 0, blank |-> 1]
                    /\ after.inMultiLineComment
               ELSE /\ delta = [code |-> 0, comments |-> 1, blank |-> 0]
                    /\ after.inMultiLineComment <=> ~Includes(trimmed, "*/")
        ELSE /\ after.inMultiLineComment <=> ( /\ trimmed # ""
                                               /\ StartsWith(trimmed, "/*")
                                               /\ ~Includes(trimmed, "*/") )
             /\ delta = LineAlone(line)

\* every line from the i-th on follows the rule, and the counts returned
\* are those after the last line; before is the state the i-th line finds
RECURSIVE RuleHoldsFrom(_, _, _, _)
RuleHoldsFrom(lines, i, before, ext) ==
  IF i > Len(lines)
    THEN /\ lineStats.code = before.code
         /\ lineStats.comments = before.comments
         /\ lineStats.blank = before.blank
    ELSE LET after == countFrom(<< lines[i] >>, 1, before, ext)
         IN  /\ BlockCommentRule(before, after, lines[i])
             /\ RuleHoldsFrom(lines, i + 1, after, ext)

\* C13: for a script-like or style-like extension the block-comment state
\* is closed before the first line; a line met with the state closed opens
\* it exactly when it is not blank, starts (trimmed) with the opening token
\* and has no closing token, and is classified as it would be alone in a
\* file; a line met with the state open counts as blank when blank and as
\* a comment otherwise, and closes the state exactly when it is not blank
\* and holds the closing token.  The counts returned are those after the
\* last line.
C13_BlockCommentState ==
  (lineStats # NoStats /\ (isJsLike(ContentExt) \/ isCssLike(ContentExt))) =>
    /\ ~AfterLine(0).inMultiLineComment
    /\ RuleHoldsFrom(ContentLines, 1, AfterLine(0), ContentExt)

\* a script whose block comment opens on line 1, runs over a blank line and
\* closes on line 3, followed by a line comment and a code line
C13_Witness ==
  /\ content = "/* a\n\n*/ b\n// c\nd"
  /\ filePath = "/w/a.js"
  /\ AfterLine(1).inMultiLineComment
  /\ AfterLine(2).inMultiLineComment
  /\ ~AfterLine(3).inMultiLineComment
  /\ lineStats = [total |-> 5, code |-> 1, comments |-> 3, blank |-> 1]

\* number of occurrences of the character c in s
CountChar(s, c) == Cardinality({i \in 1..Len(s) : CharAt(s, i) = c})

\* C15: total is the number of newline characters plus one; the content
\* "a\n\n// comment\nb" of a script gives total 4, code 2, comments 1,
\* blank 1; the empty content gives total 1, blank 1; a content that ends
\* with a newline counts as the content without it plus one blank line.
C15_NewlineSegments ==
  lineStats # NoStats =>
    /\ lineStats.total = CountChar(content, "\n") + 1
    /\ (content = "a\n\n// comment\nb" /\ isJsLike(ContentExt)) =>
         lineStats = [total |-> 4, code |-> 2, comments |-> 1, blank |-> 1]
    /\ content = "" =>
         lineStats = [total |-> 1, code |-> 0, comments |-> 0, blank |-> 1]
    /\ EndsWith(content, "\n") =>
         LET shorter == countLines(SubSeq(content, 1, Len(content) - 1), filePath)
         IN  lineStats = [total |-> shorter.total + 1, code |-> shorter.code,
                          comments |-> shorter.comments,
                          blank |-> shorter.blank + 1]

\* the scenario's script has been counted
C15_Witness ==
  /\ content = "a\n\n// comment\nb"
  /\ filePath = "/w/a.js"
  /\ lineStats = [total |-> 4, code |-> 2, comments |-> 1, blank |-> 1]

-----------------------------------------------------------------------------
(* SpecDetect: detectFramework applied, repeatedly, to one directory        *)
(* snapshot: the root directory with a few entries and a manifest.         *)

\* the entries a snapshot is made of, in the order fs.readdir lists them
SnapshotEntries ==
  << File("App.tsx", TRUE, ""),
     File("README.md", TRUE, ""),
     Dir("components", TRUE, << >>),
     Dir("lib", TRUE, << >>),
     File("next.config.mjs", TRUE, ""),
     File("nuxt.config.ts", TRUE, ""),
     Manifest(TRUE, NoJson),
     Dir("pages", TRUE, << >>),
     Dir("src", TRUE, << >>),
     File("vite.config.ts", TRUE, "") >>

ManifestAt ==
  CHOOSE i \in DOMAIN SnapshotEntries :
    SnapshotEntries[i].name = "package.json"

DepNames ==
  {"react", "preact", "next-auth", "@nuxt/kit", "vue-router", "lodash"}

\* what JSON.parse may make of a manifest
Manifests ==
  {NoJson} \cup
  { [valid |-> TRUE, dependencies |-> deps, devDependencies |-> dev] :
      deps \in {d \in SUBSET DepNames : Cardinality(d) <= MaxDeps},
      dev \in {d \in SUBSET DepNames : Cardinality(d) <= 1} }

\* the snapshot holding the chosen entries, with the chosen manifest
Snapshot(chosen, ok, manifestOk, json) ==
  LET kept == SelectSeq([i \in DOMAIN SnapshotEntries |-> i],
                        LAMBDA i : i \in chosen)
  IN  Listing("w", ok,
          [k \in DOMAIN kept |->
             IF SnapshotEntries[kept[k]].name = "package.json"
               THEN Manifest(manifestOk, json)
               ELSE SnapshotEntries[kept[k]]])

Snapshots ==
  { Snapshot(chosen, TRUE, TRUE, json) :
      chosen \in {c \in SUBSET (DOMAIN SnapshotEntries) :
                    ManifestAt \in c /\ Cardinality(c) <= MaxEntries},
      json \in Manifests }
  \cup
  { Snapshot(chosen, ok, FALSE, NoJson) :
      chosen \in {c \in SUBSET (DOMAIN SnapshotEntries) :
                    Cardinality(c) <= MaxEntries},
      ok \in BOOLEAN }

InitDetect ==
  /\ disk \in Snapshots
  /\ IdleCounter
  /\ IdleScanner
  /\ IdleLines

DetectFramework ==
  /\ Len(returned) < MaxDetects
  /\ returned' = Append(returned, [op |-> "detectFramework",
                                   dirPath |-> RootPath,
                                   value |-> detectFramework(RootPath)])
  /\ UNCHANGED << inflight, disk, framework, stats, report, pending, runs,
                  projects,
                  content, filePath, lineStats >>

NextDetect == DetectFramework

SpecDetect == InitDetect /\ [][NextDetect]_vars

\* The snapshot as the claims describe it: the entry names and the
\* dependency names of the manifest.
EntryNames == {disk.entries[i].name : i \in DOMAIN disk.entries}

ManifestDeps ==
  LET pkg == Entry(disk, "package.json")
  IN  IF pkg.kind = "file" /\ pkg.ok /\ pkg.json.valid
        THEN pkg.json.dependencies \cup pkg.json.devDependencies
        ELSE {}

\* the three criteria, for the catalog entry of that display name
Criteria(name) ==
  LET sig == FRAMEWORKS[CHOOSE i \in DOMAIN FRAMEWORKS : FRAMEWORKS[i].name = name]
  IN  \/ \E i \in DOMAIN sig.patterns : BaseName(sig.patterns[i]) \in EntryNames
      \/ \E i \in DOMAIN sig.packageIndicators :
           \E dep \in ManifestDeps : Includes(dep, sig.packageIndicators[i])
      \/ \E i \in DOMAIN sig.directories : sig.directories[i] \in EntryNames

CatalogOrder == << "Next.js", "Nuxt.js", "Vue.js", "React" >>

\* C5: on a directory holding only a package.json that declares the
\* dependency react, and a src folder, detectFramework returns the React
\* signature.
C5_ReactScenario ==
  \A k \in DOMAIN returned :
    ( /\ returned[k].op = "detectFramework"
      /\ disk.ok
      /\ EntryNames = {"package.json", "src"}
      /\ Entry(disk, "src").kind = "dir"
      /\ Readable(Entry(disk, "package.json"))
      /\ Entry(disk, "package.json").json =
           [valid |-> TRUE, dependencies |-> {"react"}, devDependencies |-> {}] )
    => returned[k].value # NoFramework /\ returned[k].value.name = "React"

\* C6: on a listable snapshot detectFramework returns the first signature
\* in the order Next.js, Nuxt.js, Vue.js, React whose criteria hold, none
\* when no criteria hold, and the same value at every call.
C6_FirstMatch ==
  \A k \in DOMAIN returned :
    (returned[k].op = "detectFramework" /\ disk.ok) =>
      /\ IF \E i \in DOMAIN CatalogOrder : Criteria(CatalogOrder[i])
           THEN /\ returned[k].value # NoFramework
                /\ \E i \in DOMAIN CatalogOrder :
                     /\ Criteria(CatalogOrder[i])
                     /\ \A j \in 1..(i - 1) : ~Criteria(CatalogOrder[j])
                     /\ returned[k].value.name = CatalogOrder[i]
           ELSE returned[k].value = NoFramework
      /\ returned[k].value = returned[1].value

\* detectFramework has run twice on a snapshot whose only matching
\* criterion is a dependency containing an indicator as a proper substring
\* ("preact"), and returned React
C6_Witness ==
  /\ Len(returned) = 2
  /\ returned[2].op = "detectFramework"
  /\ "preact" \in ManifestDeps
  /\ ~Criteria("Vue.js")
  /\ returned[2].value # NoFramework
  /\ returned[2].value.name = "React"

-----------------------------------------------------------------------------
(* SpecScan: scanForProjects and scanDirectory called on one               *)
(* ProjectScanner, one after the other or together, over a tree five       *)
(* directories deep.  A call runs alone from one await to the next; what   *)
(* it does to this.projects between two awaits is one step.                *)

ReactManifest ==
  Manifest(TRUE, [valid |-> TRUE, dependencies |-> {"react"},
                  devDependencies |-> {}])

\* the entries that make a directory a project, or none
Marker(m) ==
  IF m = "next" THEN << File("next.config.js", TRUE, "") >>
  ELSE IF m = "react" THEN << ReactManifest >>
  ELSE << >>

Markers == {"none", "next", "react"}

\* /w (depth 0) holds a link, the directory a (depth 1) and its sibling b;
\* a holds c (depth 2), c holds d (depth 3), d holds e (depth 4).  The
\* directory only has one entry, a directory named as b is.
ScanTree(mRoot, nameA, okA, mA, mC, mD, nameB) ==
  Dir("w", TRUE,
      Marker(mRoot) \o
      << Link("current"),
         Dir(nameA, okA,
             Marker(mA) \o
             << Dir("c", TRUE,
                    Marker(mC) \o
                    << Dir("d", TRUE,
                           Marker(mD) \o
                           << Dir("e", TRUE, Marker("next")) >>) >>) >>),
         Dir(nameB, TRUE, Marker("react")),
         Dir("only", TRUE, << Dir(nameB, TRUE, Marker("react")) >>) >>)

ScanTrees ==
  { ScanTree(mRoot, nameA, okA, mA, mC, mD, nameB) :
      mRoot \in {"none", "react"},
      nameA \in {"web", "dist"},
      okA \in BOOLEAN,
      mA \in {"none"},
      mC \in {"next"},
      mD \in {"react"},
      nameB \in {"api", "node_modules", ".cache2"} }

\* start paths: the root, two directories below it, a path that does not
\* exist
StartDirs == {RootPath, "/w/web", "/w/only", "/nowhere"}

\* the directories scanDirectory is called on directly, and the depths it
\* is told they have
DirectDirs == {RootPath}

DirectDepths == {0, 2}

InitScan ==
  /\ disk \in ScanTrees
  /\ IdleCounter
  /\ IdleScanner
  /\ IdleLines

\* the calls made on the scanner so far, completed or not
ScanCalls == returned \o inflight

\* the pushes the calls in flight have still to make
RECURSIVE Outstanding(_)
Outstanding(calls) ==
  IF calls = << >> THEN 0
  ELSE Len(Head(calls).remaining) + Outstanding(Tail(calls))

\* Whether the call is made: the calls of one behaviour pass the same
\* directory and the same maxDepth, and this.projects is not taken beyond
\* MaxProjects.
MayScan(call) ==
  /\ Len(ScanCalls) < MaxScans
  /\ \A k \in DOMAIN ScanCalls :
       /\ ScanCalls[k].startDir = call.startDir
       /\ ScanCalls[k].maxDepth = call.maxDepth
  /\ Len(projects) + Outstanding(inflight) + Len(call.remaining)
       <= MaxProjects

\* a call in flight: its arguments and the pushes it has still to make
ScanCall(op, dirPath, currentDepth, maxD) ==
  [op |-> op,
   startDir |-> dirPath,
   currentDepth |-> currentDepth,
   maxDepth |-> maxD,
   remaining |-> pushesOf(dirPath, currentDepth, maxD)]

\* scanForProjects(startDir, maxD) begins: it runs up to its first await
CallScanForProjects(startDir, maxD) ==
  LET call == ScanCall("scanForProjects", startDir, 0, maxD)
  IN  /\ MayScan(call)
      /\ inflight' = Append(inflight, call)
      /\ UNCHANGED << disk, framework, stats, report, pending, runs,
                      projects, returned, content, filePath, lineStats >>

\* scanDirectory(dirPath, currentDepth, maxD), called directly, begins
CallScanDirectory(dirPath, currentDepth, maxD) ==
  LET call == ScanCall("scanDirectory", dirPath, currentDepth, maxD)
  IN  /\ MayScan(call)
      /\ inflight' = Append(inflight, call)
      /\ UNCHANGED << disk, framework, stats, report, pending, runs,
                      projects, returned, content, filePath, lineStats >>

\* The call in flight at i resumes after an await and runs up to its next
\* one, over this.projects.push.  A list scanForProjects has returned is
\* this.projects itself and shows the push.
PushProject(i) ==
  /\ i \in DOMAIN inflight
  /\ inflight[i].remaining # << >>
  /\ projects' = Append(projects, Head(inflight[i].remaining))
  /\ inflight' = [inflight EXCEPT ![i].remaining = Tail(@)]
  /\ returned' = [k \in DOMAIN returned |->
                    IF returned[k].result = "this.projects"
                      THEN [returned[k] EXCEPT !.value = projects']
                      ELSE returned[k]]
  /\ UNCHANGED << disk, framework, stats, report, pending, runs, content,
                  filePath, lineStats >>

\* The call in flight at i has nothing left to push and returns:
\* scanForProjects looks at this.projects as it is now, scanDirectory
\* returns undefined.
ReturnScan(i) ==
  /\ i \in DOMAIN inflight
  /\ inflight[i].remaining = << >>
  /\ returned' =
       Append(returned,
              LET out == IF inflight[i].op = "scanForProjects"
                           THEN scanForProjects(projects)
                           ELSE [result |-> "undefined", value |-> << >>,
                                 count |-> 0, logged |-> ""]
              IN  [op |-> inflight[i].op,
                   startDir |-> inflight[i].startDir,
                   currentDepth |-> inflight[i].currentDepth,
                   maxDepth |-> inflight[i].maxDepth,
                   result |-> out.result,
                   value |-> out.value,
                   count |-> out.count,
                   logged |-> out.logged])
  /\ inflight' = [k \in 1..(Len(inflight) - 1) |->
                    IF k < i THEN inflight[k] ELSE inflight[k + 1]]
  /\ UNCHANGED << disk, framework, stats, report, pending, runs, projects,
                  content, filePath, lineStats >>

NextScan ==
  \/ \E startDir \in StartDirs, maxD \in 0..MaxDepthArg :
       CallScanForProjects(startDir, maxD)
  \/ \E dirPath \in DirectDirs, currentDepth \in DirectDepths :
       \E maxD \in (0..MaxDepthArg) \cup {Undefined} :
         CallScanDirectory(dirPath, currentDepth, maxD)
  \/ \E i \in 1..MaxScans : PushProject(i)
  \/ \E i \in 1..MaxScans : ReturnScan(i)

SpecScan == InitScan /\ [][NextScan]_vars

\* The directories reachable from path (at depth d) through listable
\* directories whose names are neither in the ignore set nor hidden, each
\* with its depth.
RECURSIVE ReachableDirs(_, _)
ReachableDirs(path, d) ==
  LET node == NodeAt(path)
  IN  IF node.kind # "dir" \/ ~node.ok THEN {}
      ELSE {[path |-> path, depth |-> d]} \cup
           UNION { ReachableDirs(Join(path, node.entries[i].name), d + 1) :
                     i \in { j \in DOMAIN node.entries :
                               /\ node.entries[j].kind = "dir"
                               /\ node.entries[j].name \notin IGNORE_DIRS
                               /\ CharAt(node.entries[j].name, 1) # "." } }

RecordedPaths == {projects[i].path : i \in DOMAIN projects}

\* scanForProjects has been called once on the scanner and has returned,
\* and nothing else has been called on it
OneScanDone ==
  /\ Len(returned) = 1
  /\ inflight = << >>
  /\ returned[1].op = "scanForProjects"

\* C7 as stated: after the only scan of a scanner, the recorded projects
\* are the matching reachable directories at depth 0..maxDepth.
C7_DepthInclusive ==
  OneScanDone =>
    RecordedPaths =
      { r.path : r \in { x \in ReachableDirs(returned[1].startDir, 0) :
                           /\ x.depth <= returned[1].maxDepth
                           /\ detectFramework(x.path) # NoFramework } }

\* C7 amended: after the only scan of a scanner, the recorded projects are
\* the matching reachable directories at depth 0..maxDepth-1; none is at
\* depth maxDepth or deeper.
C7_DepthExclusive ==
  OneScanDone =>
    RecordedPaths =
      { r.path : r \in { x \in ReachableDirs(returned[1].startDir, 0) :
                           /\ x.depth < returned[1].maxDepth
                           /\ detectFramework(x.path) # NoFramework } }

\* a scan with maxDepth 3 from the root has recorded the matching directory
\* at depth 2 and has left out the matching directory at depth 3
C7_Witness ==
  /\ OneScanDone
  /\ returned[1].startDir = RootPath
  /\ returned[1].maxDepth = 3
  /\ "/w/web/c" \in RecordedPaths
  /\ detectFramework("/w/web/c/d") # NoFramework
  /\ "/w/web/c/d" \notin RecordedPaths

\* C9: calls of scanForProjects with the same arguments return the same
\* list of the same length, and no returned list holds a directory twice.
C9_Repeatable ==
  \A i \in DOMAIN returned :
    returned[i].op = "scanForProjects" =>
      /\ \A j \in DOMAIN returned :
           ( /\ returned[j].op = "scanForProjects"
             /\ returned[j].startDir = returned[i].startDir
             /\ returned[j].maxDepth = returned[i].maxDepth )
           => /\ returned[j].count = returned[i].count
              /\ returned[j].value = returned[i].value
      /\ \A m, n \in DOMAIN returned[i].value :
           returned[i].value[m].path = returned[i].value[n].path => m = n

\* what a scan that succeeds and finds no project returns and prints
EmptyScanOutcome == [value |-> << >>, logged |-> "No projects found"]

\* C10: a scan whose start path is missing or cannot be listed returns
\* something else than a successful scan that found nothing.
C10_ExplicitFailure ==
  \A i \in DOMAIN returned :
    ( /\ returned[i].op = "scanForProjects"
      /\ ~Listable(NodeAt(returned[i].startDir)) )
    => [value |-> returned[i].value, logged |-> returned[i].logged]
         # EmptyScanOutcome

\* the names on the way from startDir down to path: none for startDir
\* itself
SegmentsBelow(startDir, path) ==
  IF path = startDir THEN << >>
  ELSE Split(SubSeq(path, Len(startDir) + 2, Len(path)), "/")

\* path is startDir or lies below it, and no name on the way down is in the
\* ignore set or begins with '.'
NothingIgnoredBelow(startDir, path) ==
  /\ path = startDir \/ StartsWith(path, startDir \o "/")
  /\ \A k \in DOMAIN SegmentsBelow(startDir, path) :
       /\ SegmentsBelow(startDir, path)[k] \notin IGNORE_DIRS
       /\ CharAt(SegmentsBelow(startDir, path)[k], 1) # "."

\* the project a call pushes is reached from its start without passing an
\* ignored or hidden name
RecordsNothingIgnored ==
  \A i \in DOMAIN inflight :
    PushProject(i) =>
      NothingIgnoredBelow(inflight[i].startDir, projects'[Len(projects')].path)

\* the only entry of the directory at path is a directory with a name of
\* the ignore set
OnlyIgnoredSubdirectory(path) ==
  /\ Listable(NodeAt(path))
  /\ Len(NodeAt(path).entries) = 1
  /\ NodeAt(path).entries[1].kind = "dir"
  /\ NodeAt(path).entries[1].name \in IGNORE_DIRS

\* the only scan of a scanner, from such a root, finds no project
IgnoredOnlyRootIsEmpty ==
  (OneScanDone /\ OnlyIgnoredSubdirectory(returned[1].startDir))
  => /\ projects = << >>
     /\ returned[1].value = << >>
     /\ returned[1].logged = "No projects found"

\* C11: no call of scanForProjects records a directory that is, or lies
\* beneath, a subdirectory of the start whose name is in the ignore set or
\* begins with '.' (every such directory of the trees would match if it
\* were entered); a root whose only entry is an ignored subdirectory gives
\* zero projects.
C11_IgnoredNeverRecorded ==
  []IgnoredOnlyRootIsEmpty /\ [][RecordsNothingIgnored]_vars

\* the only scan of a scanner, to depth 3, started at the directory whose
\* only entry is node_modules, which holds a project: nothing was recorded
C11_Witness ==
  /\ OneScanDone
  /\ returned[1].startDir = "/w/only"
  /\ returned[1].maxDepth = 3
  /\ OnlyIgnoredSubdirectory("/w/only")
  /\ detectFramework("/w/only/node_modules") # NoFramework
  /\ returned[1].value = << >>
  /\ projects = << >>

-----------------------------------------------------------------------------
(* Spec: one CodeCounter at a time (the constructor replaces it), fed by   *)
(* direct processFile calls, scanDirectory walks of the whole tree and     *)
(* generateReport.  A walk runs alone from one await to the next, one step *)
(* on this.stats at a time; other calls run between its steps.             *)

\* ok: which of the files and directories can be read
CounterTree(ok) ==
  Dir("w", TRUE,
      << Dir("src", TRUE,
             << File("App.JS", TRUE, "a\n//b\n"),
                Dir("components", TRUE,
                    << File("Btn.js", TRUE, "/*\nx\n*/\n\nb") >>) >>),
         File("bad.ts", ok.bad, "x\ny\nz\nw\nv\nu"),
         Dir("locked", ok.locked, << File("in.css", TRUE, "/* x\ny") >>),
         Dir("node_modules", TRUE, << File("m.js", TRUE, "a\nb") >>),
         Link("latest.js"),
         File("lib.min.js", TRUE, "a"),
         File(".env", TRUE, "a"),
         File("notes", TRUE, "a"),
         File("README.md", TRUE, "") >>)

CounterTrees ==
  { CounterTree(ok) : ok \in [bad : BOOLEAN, locked : BOOLEAN] }

\* the frameworks a counter is constructed with: null or the React entry
CounterFrameworks == {NoFramework, FRAMEWORKS[4]}

\* the files processFile is called on directly
ProcessPaths == {"/w/src/App.JS", "/w/src/components/Btn.js", "/w/bad.ts"}

ProcessArgs ==
  { [path |-> q, relativePath |-> Relative(RootPath, q)] : q \in ProcessPaths }

\* the steps made on the counter's stats so far: the files counted and the
\* messages recorded
Calls == stats.totalFiles + Len(stats.errors)

\* those steps and the steps the walks in flight have still to make
Work == Calls + Outstanding(inflight)

Init ==
  /\ disk \in CounterTrees
  /\ framework \in CounterFrameworks
  /\ stats = NewStats
  /\ report = NoReport
  /\ pending = FALSE
  /\ runs = << >>
  /\ inflight = << >>
  /\ IdleScanner
  /\ IdleLines

\* new CodeCounter(fw); the calls in flight go on with the counter that was
\* replaced, which is observed no longer
Construct(fw) ==
  /\ framework' = fw
  /\ stats' = NewStats
  /\ report' = NoReport
  /\ pending' = FALSE
  /\ runs' = << >>
  /\ inflight' = << >>
  /\ UNCHANGED << disk, projects, returned, content, filePath, lineStats >>

\* processFile(path, relativePath), at the point it resumes with what
\* readFile gave
ProcessFile(a) ==
  /\ Calls < MaxCalls
  /\ report' = NoReport
  /\ pending' = FALSE
  /\ UNCHANGED << inflight, disk, framework, runs, projects, returned,
                  content, filePath, lineStats >>
  /\ stats' = processFile(stats, framework, a.path, a.relativePath)

\* scanDirectory(RootPath, RootPath, spinner) begins, with a spinner as main
\* calls it: it runs up to its first await
ScanDirectory ==
  /\ Work < MaxWork
  /\ Len(runs) + Len(inflight) < MaxRuns
  /\ inflight' = Append(inflight,
                        [op |-> "scanDirectory",
                         remaining |-> CodeCounter_scanDirectory(
                                         RootPath, RootPath, TRUE)])
  /\ UNCHANGED << disk, framework, stats, report, pending, runs, projects,
                  returned, content, filePath, lineStats >>

\* The walk in flight at i resumes after an await and runs up to its next
\* one, over one step on this.stats.
WalkStep(i) ==
  /\ i \in DOMAIN inflight
  /\ inflight[i].remaining # << >>
  /\ inflight' = [inflight EXCEPT ![i].remaining = Tail(@)]
  /\ report' = NoReport
  /\ pending' = FALSE
  /\ UNCHANGED << disk, framework, runs, projects, returned, content,
                  filePath, lineStats >>
  /\ stats' = scanStep(stats, framework, Head(inflight[i].remaining))

\* The walk in flight at i has no step left and returns.
ReturnWalk(i) ==
  /\ i \in DOMAIN inflight
  /\ inflight[i].remaining = << >>
  /\ inflight' = [k \in 1..(Len(inflight) - 1) |->
                    IF k < i THEN inflight[k] ELSE inflight[k + 1]]
  /\ pending' = TRUE
  /\ UNCHANGED << disk, framework, stats, report, runs, projects, returned,
                  content, filePath, lineStats >>

\* generateReport(); a report that follows the return of a walk, with no
\* step on the stats between the two, completes a run
GenerateReport ==
  LET out == generateReport(stats)
  IN  /\ stats' = out.stats
      /\ report' = out.report
      /\ runs' = IF pending THEN Append(runs, out.report.summary) ELSE runs
      /\ pending' = FALSE
      /\ UNCHANGED << inflight, disk, framework, projects, returned, content,
                      filePath, lineStats >>

Next ==
  \/ \E fw \in CounterFrameworks : Construct(fw)
  \/ \E a \in ProcessArgs : ProcessFile(a)
  \/ ScanDirectory
  \/ \E i \in 1..MaxRuns : WalkStep(i)
  \/ \E i \in 1..MaxRuns : ReturnWalk(i)
  \/ GenerateReport

Spec == Init /\ [][Next]_vars

\* sum of one field over the buckets of a map
RECURSIVE SumOver(_, _, _)
SumOver(buckets, keys, field) ==
  IF keys = {} THEN 0
  ELSE LET k == CHOOSE x \in keys : TRUE
       IN  buckets[k][field] + SumOver(buckets, keys \ {k}, field)

BucketSum(buckets, field) == SumOver(buckets, DOMAIN buckets, field)

\* count of a bucket, 0 when the map has no such bucket
CountIn(buckets, key) ==
  IF key \in DOMAIN buckets THEN buckets[key].count ELSE 0

\* the step adds one to the count of exactly the bucket key and leaves the
\* counts of all other buckets alone
CountsOneMore(before, after, key) ==
  /\ DOMAIN after = DOMAIN before \cup {key}
  /\ \A k \in DOMAIN after :
       after[k].count = CountIn(before, k) + (IF k = key THEN 1 ELSE 0)

\* the lower-cased extensions of the files processFile is called on,
\* directly or by a walk
ExpectedExt(q) ==
  IF q \in {"/w/src/App.JS", "/w/src/components/Btn.js"} THEN ".js"
  ELSE IF q = "/w/README.md" THEN ".md"
  ELSE IF q = "/w/locked/in.css" THEN ".css"
  ELSE ".ts"

\* the step of the walk in flight at i is a processFile call
StepsOnFile(i) ==
  WalkStep(i) /\ Head(inflight[i].remaining).op = "processFile"

\* the file of that call
FileOfStep(i) == Head(inflight[i].remaining).path

\* the bucket counts and line sums agree with the totals
BucketsComplete ==
  /\ BucketSum(stats.fileTypes, "count") = stats.totalFiles
  /\ BucketSum(stats.categories, "count") = stats.totalFiles
  /\ BucketSum(stats.fileTypes, "lines") = stats.totalLines
  /\ BucketSum(stats.categories, "lines") = stats.totalLines
  /\ BucketSum(stats.fileTypes, "codeLines") = stats.totalCodeLines
  /\ BucketSum(stats.categories, "codeLines") = stats.totalCodeLines

\* the step counts the file once in totalFiles, once in the bucket of its
\* lower-cased extension and once in one category
CountsFile(q) ==
  /\ stats'.totalFiles = stats.totalFiles + 1
  /\ CountsOneMore(stats.fileTypes, stats'.fileTypes, ExpectedExt(q))
  /\ \E c \in DOMAIN stats'.categories :
       CountsOneMore(stats.categories, stats'.categories, c)

\* a successful processFile call, made directly or by a walk, so counts its
\* file
CountedOnce ==
  /\ \A a \in ProcessArgs :
       (ProcessFile(a) /\ Readable(NodeAt(a.path))) => CountsFile(a.path)
  /\ \A i \in DOMAIN inflight :
       (StepsOnFile(i) /\ Readable(NodeAt(FileOfStep(i))))
       => CountsFile(FileOfStep(i))

\* C2: at every point the count, lines and codeLines sums over the
\* fileTypes buckets and over the categories buckets equal totalFiles,
\* totalLines and totalCodeLines, and every successful processFile call
\* adds one to totalFiles, to the bucket of the file's lower-cased
\* extension and to exactly one category bucket.
C2_BucketCompleteness == []BucketsComplete /\ [][CountedOnce]_vars

\* the bucket ".js" has taken App.JS and Btn.js, whose extensions differ
\* in case only and whose categories differ, next to a failed call
C2_Witness ==
  /\ stats.totalFiles >= 3
  /\ Len(stats.errors) >= 1
  /\ ".js" \in DOMAIN stats.fileTypes
  /\ stats.fileTypes[".js"].count >= 2
  /\ \E i, j \in DOMAIN stats.largestFiles :
       /\ stats.largestFiles[i].path = "src/App.JS"
       /\ stats.largestFiles[j].path = "src/components/Btn.js"
  /\ Cardinality(DOMAIN stats.categories) >= 2

\* the list is in descending order of lines
Descending(list) ==
  \A i \in 1..(Len(list) - 1) : list[i].lines >= list[i + 1].lines

\* C3: largestFiles never holds more than 5 entries, and the largestFiles
\* of a report generateReport returns is in descending order of lines.
C3_LargestFiles ==
  /\ Len(stats.largestFiles) <= 5
  /\ report # NoReport =>
       /\ Len(report.largestFiles) <= 5
       /\ Descending(report.largestFiles)

\* a report made after more than five files were processed, holding five
\* entries of at least two different sizes
C3_Witness ==
  /\ report # NoReport
  /\ stats.totalFiles > 5
  /\ Len(report.largestFiles) = 5
  /\ report.largestFiles[1].lines > report.largestFiles[5].lines

\* every field of the stats but errors is the same
SameButErrors(before, after) == [after EXCEPT !.errors = before.errors] = before

IsPrefix(short, long) ==
  Len(short) <= Len(long) /\ SubSeq(long, 1, Len(short)) = short

\* The files a walk from dirPath hands to processFile: the regular files
\* with a recognized extension and a name that is not ignored, in the
\* listable directories reached through directories that are not ignored.
RECURSIVE WalkedFiles(_)
WalkedFiles(dirPath) ==
  LET node == NodeAt(dirPath)
  IN  IF ~(node.kind = "dir" /\ node.ok) THEN {}
      ELSE UNION
        { IF node.entries[i].kind = "dir"
            THEN IF node.entries[i].name \in IGNORE_DIRS
                    \/ CharAt(node.entries[i].name, 1) = "."
                   THEN {}
                   ELSE WalkedFiles(Join(dirPath, node.entries[i].name))
          ELSE IF /\ node.entries[i].kind = "file"
                  /\ node.entries[i].name \notin IGNORE_FILES
                  /\ CharAt(node.entries[i].name, 1) # "."
                  /\ ~EndsWith(node.entries[i].name, ".min.js")
                  /\ ToLowerCase(ExtName(node.entries[i].name)) \in CODE_EXTENSIONS
            THEN {Join(dirPath, node.entries[i].name)}
            ELSE {} : i \in DOMAIN node.entries }

\* the directories such a walk tries to list and cannot
RECURSIVE UnlistableDirs(_)
UnlistableDirs(dirPath) ==
  LET node == NodeAt(dirPath)
  IN  IF ~(node.kind = "dir" /\ node.ok) THEN {dirPath}
      ELSE UNION
        { IF /\ node.entries[i].kind = "dir"
             /\ node.entries[i].name \notin IGNORE_DIRS
             /\ CharAt(node.entries[i].name, 1) # "."
            THEN UnlistableDirs(Join(dirPath, node.entries[i].name))
            ELSE {} : i \in DOMAIN node.entries }

\* the step appends one message and changes nothing else
OnlyLogs ==
  /\ Len(stats'.errors) = Len(stats.errors) + 1
  /\ IsPrefix(stats.errors, stats'.errors)
  /\ SameButErrors(stats, stats')

\* a processFile call on a file that cannot be read, made directly or by a
\* walk, appends one message and changes nothing else
FailureOnlyLogs ==
  /\ \A a \in ProcessArgs :
       (ProcessFile(a) /\ ~Readable(NodeAt(a.path))) => OnlyLogs
  /\ \A i \in DOMAIN inflight :
       (StepsOnFile(i) /\ ~Readable(NodeAt(FileOfStep(i)))) => OnlyLogs

\* A walk has one step for every file it meets and
\* one for every directory it cannot list, whichever of them fail, and
\* after a step that fails it has the steps left it had before.
WalkContinues ==
  /\ (Len(inflight') = Len(inflight) + 1 /\ ScanDirectory) =>
       LET steps == inflight'[Len(inflight')].remaining
           calls == {k \in DOMAIN steps : steps[k].op = "processFile"}
           catches == DOMAIN steps \ calls
       IN  /\ {steps[k].path : k \in calls} = WalkedFiles(RootPath)
           /\ Cardinality(calls) = Cardinality(WalkedFiles(RootPath))
           /\ {steps[k].path : k \in catches} = UnlistableDirs(RootPath)
           /\ Cardinality(catches) = Cardinality(UnlistableDirs(RootPath))
  /\ \A i \in DOMAIN inflight :
       (WalkStep(i) /\ Len(stats'.errors) > Len(stats.errors)) =>
         /\ Len(inflight') = Len(inflight)
         /\ inflight'[i].remaining = Tail(inflight[i].remaining)
  /\ \A i \in DOMAIN inflight :
       ReturnWalk(i) => inflight[i].remaining = << >>

\* no step of a counter shortens or rewrites its errors
ErrorsOnlyGrow ==
  (\A fw \in CounterFrameworks : ~Construct(fw)) =>
    IsPrefix(stats.errors, stats'.errors)

\* C4: a processFile call whose read fails appends exactly one message to
\* errors and leaves every other field of the stats unchanged; a walk goes
\* on to the remaining entries; errors is never shortened or cleared.
C4_ReadFailure == [][FailureOnlyLogs /\ WalkContinues /\ ErrorsOnlyGrow]_vars

\* a walk has returned that met the unreadable bad.ts and the unlistable
\* locked and has counted src/App.JS, which comes after them
C4_Witness ==
  /\ pending
  /\ inflight = << >>
  /\ ~Readable(NodeAt("/w/bad.ts"))
  /\ ~Listable(NodeAt("/w/locked"))
  /\ stats.errors = << "Error processing file /w/bad.ts: EACCES",
                       "Error scanning directory /w/locked: EACCES" >>
  /\ \E k \in DOMAIN stats.largestFiles :
       stats.largestFiles[k].path = "src/App.JS"
  /\ stats.totalFiles = 3

\* C8: the scanDirectory+generateReport runs of a counter on the unchanged
\* tree all return the same summary.
C8_SameSummary ==
  \A i, j \in DOMAIN runs : runs[i] = runs[j]

-----------------------------------------------------------------------------
(* SpecCategory: a new CodeCounter bound to any framework of the catalog,  *)
(* or to none, counts the files of a project that keeps directories named  *)
(* components, ui and pages at its root and below src.                     *)

CategoryTree ==
  Dir("w", TRUE,
      << Dir("components", TRUE, << File("Button.js", TRUE, "a") >>),
         Dir("pages", TRUE, << File("index.js", TRUE, "a\nb") >>),
         Dir("src", TRUE,
             << Dir("ui", TRUE, << File("Card.tsx", TRUE, "a\nb\nc") >>),
                Dir("pages", TRUE,
                    << Dir("components", TRUE,
                           << File("Nav.js", TRUE, "a\nb\nc\nd") >>) >>),
                File("index.js", TRUE, "a\nb\nc\nd\ne") >>) >>)

CategoryFrameworks ==
  {NoFramework} \cup {FRAMEWORKS[i] : i \in DOMAIN FRAMEWORKS}

\* the files processFile is called on, with the relativePath scanDirectory
\* passes for them
CategoryArgs ==
  { [path |-> q, relativePath |-> Relative(RootPath, q)] :
      q \in {"/w/components/Button.js", "/w/pages/index.js",
             "/w/src/ui/Card.tsx", "/w/src/pages/components/Nav.js",
             "/w/src/index.js"} }

InitCategory ==
  /\ disk = CategoryTree
  /\ framework \in CategoryFrameworks
  /\ stats = NewStats
  /\ report = NoReport
  /\ pending = FALSE
  /\ runs = << >>
  /\ inflight = << >>
  /\ IdleScanner
  /\ IdleLines

\* processFile(path, relativePath) on the project's counter
ProcessProjectFile(a) ==
  /\ stats.totalFiles < MaxCategorized
  /\ stats' = processFile(stats, framework, a.path, a.relativePath)
  /\ UNCHANGED << inflight, disk, framework, report, pending, runs, projects,
                  returned, content, filePath, lineStats >>

\* scanDirectory(RootPath, RootPath, spinner) begins on the new counter, as
\* main calls it or without a spinner
ScanProject(spinner) ==
  /\ stats = NewStats
  /\ inflight = << >>
  /\ inflight' = << [op |-> "scanDirectory",
                     remaining |-> CodeCounter_scanDirectory(
                                     RootPath, RootPath, spinner)] >>
  /\ UNCHANGED << disk, framework, stats, report, pending, runs, projects,
                  returned, content, filePath, lineStats >>

NextCategory ==
  \/ \E a \in CategoryArgs : ProcessProjectFile(a)
  \/ \E spinner \in BOOLEAN : ScanProject(spinner)
  \/ \E i \in 1..MaxRuns : WalkStep(i)
  \/ \E i \in 1..MaxRuns : ReturnWalk(i)

SpecCategory == InitCategory /\ [][NextCategory]_vars

\* the names of the directories on a relative path, the file name left out
DirectorySegments(relativePath) ==
  LET segments == Split(relativePath, "/")
  IN  {segments[k] : k \in 1..(Len(segments) - 1)}

\* a category pattern matches a path that has one of its names as a
\* directory segment, at any position
SegmentTest(pattern, relativePath) ==
  \E i \in DOMAIN pattern : pattern[i] \in DirectorySegments(relativePath)

\* the category of the first declared pattern that so matches, "other" when
\* none does or there is no framework
SegmentCategory(fw, relativePath) ==
  IF fw = NoFramework THEN "other"
  ELSE IF \E i \in DOMAIN fw.categories :
            SegmentTest(fw.categories[i].pattern, relativePath)
    THEN fw.categories[
           CHOOSE i \in DOMAIN fw.categories :
             /\ SegmentTest(fw.categories[i].pattern, relativePath)
             /\ \A j \in 1..(i - 1) :
                  ~SegmentTest(fw.categories[j].pattern, relativePath)
         ].category
  ELSE "other"

CategoryNames(fw) ==
  {"other"} \cup
  (IF fw = NoFramework THEN {}
   ELSE {fw.categories[i].category : i \in DOMAIN fw.categories})

\* C12: as long as largestFiles lists every counted file, each category
\* bucket counts the files whose relative path has a directory segment of
\* that category's pattern at any position, the first one included (and no
\* earlier pattern matching); "other" counts the files no pattern matches.
C12_SegmentAnywhere ==
  Len(stats.largestFiles) = stats.totalFiles =>
    \A c \in CategoryNames(framework) \cup DOMAIN stats.categories :
      CountIn(stats.categories, c) =
        Cardinality({ k \in DOMAIN stats.largestFiles :
                        SegmentCategory(framework, stats.largestFiles[k].path) = c })

-----------------------------------------------------------------------------
(* SpecConcurrent: a caller makes several processFile calls on one         *)
(* CodeCounter without awaiting each (Promise.all).  A call runs to its    *)
(* await and is resumed when its read has completed, in any order; between *)
(* two awaits a call runs alone, statement group by statement group.       *)

\* processFile with a second await, placed between the file type update
\* and the category update
suspendsAt_midFold(pc) == pc \in {"readFile", "categories"}

\* the statements of processFile at which the call awaits
suspendsAt(pc) == pc = "readFile"

\* One statement group of processFile, run by a call that stands at pc: the
\* stats after it and the statement the call stands at next.
processFileStep(st, fw, call) ==
  LET node == NodeAt(call.path)
      ls == countLines(node.content, call.path)
      ext == ToLowerCase(ExtName(call.path))
      category == categorizeFile(fw, call.relativePath)
  IN  IF call.pc = "readFile"
        THEN IF Readable(node)
               THEN [stats |-> [st EXCEPT
                                  !.totalFiles = @ + 1,
                                  !.totalLines = @ + ls.total,
                                  !.totalCodeLines = @ + ls.code,
                                  !.totalBlankLines = @ + ls.blank,
                                  !.totalCommentLines = @ + ls.comments],
                     pc |-> "fileTypes"]
               ELSE [stats |-> recordFileError(st, call.path), pc |-> "done"]
      ELSE IF call.pc = "fileTypes"
        THEN [stats |-> [st EXCEPT !.fileTypes = updateBucket(@, ext, ls)],
              pc |-> "categories"]
      ELSE IF call.pc = "categories"
        THEN [stats |-> [st EXCEPT !.categories = updateBucket(@, category, ls)],
              pc |-> "largestFiles"]
      ELSE [stats |-> [st EXCEPT
                         !.largestFiles =
                            trackLargest(@, [path |-> call.relativePath,
                                             lines |-> ls.total,
                                             codeLines |-> ls.code,
                                             size |-> Len(node.content),
                                             type |-> ext])],
            pc |-> "done"]

\* the call is between two awaits: it holds the thread
Running(call) == call.pc # "done" /\ ~suspendsAt(call.pc)

NoneRunning == \A j \in DOMAIN inflight : ~Running(inflight[j])

ConcurrentTrees == { CounterTree([bad |-> b, locked |-> TRUE]) : b \in BOOLEAN }

InitConcurrent ==
  /\ disk \in ConcurrentTrees
  /\ framework \in CounterFrameworks
  /\ stats = NewStats
  /\ report = NoReport
  /\ pending = FALSE
  /\ runs = << >>
  /\ inflight = << >>
  /\ IdleScanner
  /\ IdleLines

\* the caller calls processFile(path, relativePath): the call runs up to
\* its await of readFile
CallProcessFile(a) ==
  /\ Len(inflight) < MaxInflight
  /\ NoneRunning
  /\ inflight' = Append(inflight, [path |-> a.path,
                                   relativePath |-> a.relativePath,
                                   pc |-> "readFile"])
  /\ UNCHANGED << disk, framework, stats, report, pending, runs, projects,
                  returned, content, filePath, lineStats >>

\* the i-th call runs its next statement group: resumed from an await when
\* no call is running, or going on as the running call
StepProcessFile(i) ==
  /\ i \in DOMAIN inflight
  /\ inflight[i].pc # "done"
  /\ \A j \in DOMAIN inflight : j # i => ~Running(inflight[j])
  /\ LET out == processFileStep(stats, framework, inflight[i])
     IN  /\ stats' = out.stats
         /\ inflight' = [inflight EXCEPT ![i].pc = out.pc]
  /\ UNCHANGED << disk, framework, report, pending, runs, projects,
                  returned, content, filePath, lineStats >>

NextConcurrent ==
  \/ \E a \in ProcessArgs : CallProcessFile(a)
  \/ \E i \in 1..MaxInflight : StepProcessFile(i)

SpecConcurrent == InitConcurrent /\ [][NextConcurrent]_vars

\* the call has applied a part of its fold and not yet all of it
PartlyFolded(call) == call.pc \in {"fileTypes", "categories", "largestFiles"}

\* a call that comes back from its await finds no fold of another call
\* partly applied
ResumesOnWholeFolds ==
  \A i \in DOMAIN inflight :
    ( /\ inflight[i].pc = "readFile"
      /\ i \in DOMAIN inflight'
      /\ inflight'[i].pc # "readFile" )
    => \A j \in DOMAIN inflight : j # i => ~PartlyFolded(inflight[j])

\* the stats after processFile has been awaited for the calls from the k-th
\* on, one after the other
RECURSIVE Sequentially(_, _, _)
Sequentially(st, calls, k) ==
  IF k > Len(calls) THEN st
  ELSE Sequentially(processFile(st, framework, calls[k].path,
                                calls[k].relativePath), calls, k + 1)

TotalsAndBuckets(st) ==
  [totalFiles |-> st.totalFiles, totalLines |-> st.totalLines,
   totalCodeLines |-> st.totalCodeLines,
   totalBlankLines |-> st.totalBlankLines,
   totalCommentLines |-> st.totalCommentLines,
   fileTypes |-> st.fileTypes, categories |-> st.categories]

\* once every call has returned, totals and buckets are those of the
\* sequential processing of the same files
SameAsSequential ==
  (\A i \in DOMAIN inflight : inflight[i].pc = "done") =>
    TotalsAndBuckets(stats) =
      TotalsAndBuckets(Sequentially(NewStats, inflight, 1))

\* C14: with several processFile calls in flight on one counter, a call
\* resumed after its read never finds another call's fold partly applied,
\* and when all calls have returned the totals and the buckets equal those
\* of processing the same files one after the other.
C14_AtomicFold ==
  []SameAsSequential /\ [][ResumesOnWholeFolds]_vars

\* three calls were in flight together; the second completed before
\* the first, and all have returned, two of them having folded a file
C14_Witness ==
  /\ Len(inflight) = 3
  /\ \A i \in DOMAIN inflight : inflight[i].pc = "done"
  /\ inflight[1].path # inflight[2].path
  /\ stats.totalFiles >= 2
  /\ Len(stats.largestFiles) >= 2
  /\ stats.largestFiles[1].path = inflight[2].relativePath
  /\ stats.largestFiles[2].path = inflight[1].relativePath

-----------------------------------------------------------------------------
(* SpecLargest: processFile called again and again, in any order, on the   *)
(* files of a small project, one of them unreadable, with generateReport   *)
(* called in between; returned logs the completed processFile calls.       *)

LargestTree ==
  Dir("w", TRUE,
      << File("one.js", TRUE, "a"),
         File("two.css", TRUE, "a\n"),
         File("three.ts", TRUE, "a\n\n//b"),
         File("gone.js", FALSE, "") >>)

LargestArgs ==
  { [path |-> q, relativePath |-> Relative(RootPath, q)] :
      q \in {"/w/one.js", "/w/two.css", "/w/three.ts", "/w/gone.js"} }

InitLargest ==
  /\ disk = LargestTree
  /\ framework = NoFramework
  /\ stats = NewStats
  /\ report = NoReport
  /\ pending = FALSE
  /\ runs = << >>
  /\ inflight = << >>
  /\ IdleScanner
  /\ IdleLines

\* await processFile(path, relativePath)
ProcessNextFile(a) ==
  /\ Len(returned) < MaxProcessed
  /\ stats' = processFile(stats, framework, a.path, a.relativePath)
  /\ report' = NoReport
  /\ returned' = Append(returned, [op |-> "processFile", path |-> a.path,
                                   relativePath |-> a.relativePath])
  /\ UNCHANGED << inflight, disk, framework, pending, runs, projects,
                  content, filePath, lineStats >>

\* generateReport(), which sorts stats.largestFiles in place
ReportLargest ==
  /\ report = NoReport
  /\ LET out == generateReport(stats)
     IN  stats' = out.stats /\ report' = out.report
  /\ UNCHANGED << inflight, disk, framework, pending, runs, projects,
                  returned, content, filePath, lineStats >>

NextLargest ==
  \/ \E a \in LargestArgs : ProcessNextFile(a)
  \/ ReportLargest

SpecLargest == InitLargest /\ [][NextLargest]_vars

\* the processFile calls that read their file
Processed == {i \in DOMAIN returned : Readable(NodeAt(returned[i].path))}

\* the line count of the file of the i-th call
LinesOf(i) == countLines(NodeAt(returned[i].path).content, returned[i].path).total

\* the line counts of the processed files, by call
ProcessedLines == [i \in Processed |-> LinesOf(i)]

Smaller(a, b) == IF a < b THEN a ELSE b

\* how often the value v occurs among the k largest values of counts
TimesInTop(counts, v, k) ==
  LET same == Cardinality({i \in DOMAIN counts : counts[i] = v})
      larger == Cardinality({i \in DOMAIN counts : counts[i] > v})
  IN  IF larger >= k THEN 0 ELSE Smaller(same, k - larger)

\* the list holds k entries, and every line count occurs in it as often as
\* among the k largest values of counts
HoldsTop(list, counts, k) ==
  /\ Len(list) = k
  /\ \A v \in {counts[i] : i \in DOMAIN counts} \cup
              {list[j].lines : j \in DOMAIN list} :
       Cardinality({j \in DOMAIN list : list[j].lines = v})
         = TimesInTop(counts, v, k)

\* C16: after any sequence of processFile calls, largestFiles holds
\* min(5, n) entries for the n files processed, and every line count occurs
\* in it as often as among the min(5, n) largest line counts of those files.
C16_TopFiveKept ==
  LET counts == ProcessedLines
  IN  HoldsTop(stats.largestFiles, counts,
               Smaller(5, Cardinality(DOMAIN counts)))

\* six files were processed, the largest of them last, and the truncation
\* has dropped a one-line file, not the largest
C16_Witness ==
  /\ Cardinality(Processed) = 6
  /\ returned[6].path = "/w/three.ts"
  /\ \A i \in 1..5 : LinesOf(i) < 3
  /\ \E i \in 1..5 : LinesOf(i) = 1
  /\ \E i \in 1..5 : LinesOf(i) = 2
  /\ Len(stats.largestFiles) = 5
  /\ \E j \in DOMAIN stats.largestFiles : stats.largestFiles[j].lines = 3
  /\ Cardinality({j \in DOMAIN stats.largestFiles : stats.largestFiles[j].lines = 1})
       < Cardinality({i \in Processed : LinesOf(i) = 1})

=============================================================================
